---- MODULE Spec2Model ----
(***************************************************************************)
(* Model of the Spark monitoring recommendations notebook                  *)
(* (notebook-content.py): the duration metrics, the interval merger, the   *)
(* critical path, the scaling predictor, the recommendation rules and the  *)
(* per-application processing loop.                                        *)
(*                                                                         *)
(* Units.  Every time and duration is an integer number of milliseconds.   *)
(* The notebook divides by 1000 and works in (floating point) seconds; a   *)
(* value of s seconds there is the value 1000*s here, and the arithmetic   *)
(* is exact.  A Spark null / Python None of a quantity that is otherwise   *)
(* non-negative is the value None.                                         *)
(***************************************************************************)
EXTENDS Integers, Sequences, FiniteSets, TLC

VARIABLES
    pc,                  \* position of the notebook / of the operation under study
    event_log_df,        \* event records of the application run being analysed
    metadata_df,         \* metadata row of that run (column name -> value)
    args,                \* scalar arguments of generate_recommendations
    result,              \* what the last operation returned (or the exception it raised)
    app_ids,             \* the application ids of the batch
    i,                   \* number of application ids the loop has taken so far
    summary_dfs,         \* list of per-run summary tables (or error rows)
    metrics_df,          \* list of per-run metric tables
    predictions_df,      \* list of per-run prediction tables
    recommendations_df   \* list of per-run recommendation tables

vars == <<pc, event_log_df, metadata_df, args, result, app_ids, i,
          summary_dfs, metrics_df, predictions_df, recommendations_df>>

(***************************************************************************)
(* Bounds of the model.                                                    *)
(***************************************************************************)
MaxIntervals == 3    \* longest task list given to the interval merger
MaxTime == 3         \* largest launch / finish time of those tasks
MaxRunTasks == 2     \* longest task list of one analysed run
MaxRun == 1          \* largest task run time of such a run, in seconds
MaxWindow == 2       \* largest execution window of such a stage, in seconds
NumApps == 2         \* application ids in one batch
MaxExecutors == 2    \* largest executor count given to the scaling predictor

None == -1

(***************************************************************************)
(* Small helpers.                                                          *)
(***************************************************************************)
Max(a, b) == IF a >= b THEN a ELSE b

Min(a, b) == IF a <= b THEN a ELSE b

RECURSIVE SeqSum(_)
SeqSum(s) == IF s = <<>> THEN 0 ELSE Head(s) + SeqSum(Tail(s))

RECURSIVE SetSum(_, _)
SetSum(f, S) ==
    IF S = {} THEN 0
    ELSE LET x == CHOOSE y \in S : TRUE IN f[x] + SetSum(f, S \ {x})

SetMax(S) == CHOOSE x \in S : \A y \in S : y <= x

SetMin(S) == CHOOSE x \in S : \A y \in S : x <= y

Range(s) == {s[k] : k \in DOMAIN s}

\* All sequences over S of length at most n.
SeqsUpTo(S, n) == UNION {[1..k -> S] : k \in 0..n}

\* The orders a Spark orderBy may return rows in: every arrangement of the
\* rows in ascending order of their keys; the order among rows of equal key is
\* not specified.  IndexOrders gives the arrangements as sequences of indices.
RECURSIVE IndexOrders(_, _)
IndexOrders(keys, rest) ==
    IF rest = {} THEN {<<>>}
    ELSE UNION {{<<x>> \o r : r \in IndexOrders(keys, rest \ {x})} :
                   x \in {y \in rest : \A z \in rest : keys[y] <= keys[z]}}

Orderings(rows, keys) ==
    {[k \in 1..Len(rows) |-> rows[p[k]]] : p \in IndexOrders(keys, DOMAIN rows)}

\* A set as a sequence, in some fixed order.
RECURSIVE SetToSeq(_)
SetToSeq(S) ==
    IF S = {} THEN <<>>
    ELSE LET x == CHOOSE y \in S : TRUE IN <<x>> \o SetToSeq(S \ {x})

\* Floor of a / b, b # 0 (Python's //).
FloorDiv(a, b) == IF b > 0 THEN a \div b ELSE (-a) \div (-b)

Abs(a) == IF a < 0 THEN 0 - a ELSE a

RECURSIVE GCD(_, _)
GCD(a, b) == IF b = 0 THEN Abs(a) ELSE GCD(b, a % Abs(b))

\* What a function returns: a value, or the exception it raised.
Ok(value) == [error |-> "", value |-> value]

Raise(exception) == [error |-> exception, value |-> <<>>]

(***************************************************************************)
(* Event records.  An event log is [start, end, tasks]: the timestamps of  *)
(* its SparkListenerApplicationStart and SparkListenerApplicationEnd       *)
(* events (sets: the log may hold none or several) and the sequence of its *)
(* SparkListenerTaskEnd events.                                            *)
(***************************************************************************)
TaskEnd(stage, attempt, executor, launch, finish, failed, run) ==
    [stage_id |-> stage, stage_attempt_id |-> attempt, executor_id |-> executor,
     launch_time |-> launch, finish_time |-> finish, failed |-> failed,
     run_time |-> run]

EventLog(start, end, tasks) == [start |-> start, end |-> end, tasks |-> tasks]

(***************************************************************************)
(* compute_application_runtime: end minus start, of whichever start and    *)
(* end row limit(1) returns; 0.0 when either is absent.                    *)
(***************************************************************************)
compute_application_runtime(log) ==
    IF log.start # {} /\ log.end # {}
    THEN {e - s : s \in log.start, e \in log.end}
    ELSE {0}

(***************************************************************************)
(* compute_executor_wall_clock_time.                                       *)
(***************************************************************************)
\* Lines 98-102: launch and finish of every TaskEnd event, rows with a null dropped.
task_end_df(log) ==
    LET kept == SelectSeq(log.tasks,
                    LAMBDA t : t.launch_time # None /\ t.finish_time # None)
    IN [k \in 1..Len(kept) |-> <<kept[k].launch_time, kept[k].finish_time>>]

\* intervals without the orderBy: the rows in the order of the log.
intervals_unsorted(log) == {task_end_df(log)}

\* Lines 104-105: orderBy("start_sec").
intervals(log) ==
    LET rows == task_end_df(log)
    IN Orderings(rows, [k \in DOMAIN rows |-> rows[k][1]])

\* MergeStep without the max of line 113: the merged end is the row's end.
MergeStepLastEnd(merged, row) ==
    IF merged = <<>> \/ merged[Len(merged)][2] < row[1]
    THEN Append(merged, row)
    ELSE [merged EXCEPT ![Len(merged)] = <<@[1], row[2]>>]

\* Lines 110-113, one row of the loop.
MergeStep(merged, row) ==
    IF merged = <<>> \/ merged[Len(merged)][2] < row[1]
    THEN Append(merged, row)
    ELSE [merged EXCEPT ![Len(merged)] = <<@[1], Max(@[2], row[2])>>]

\* Lines 107-113.
RECURSIVE MergeFrom(_, _)
MergeFrom(merged, rows) ==
    IF rows = <<>> THEN merged
    ELSE MergeFrom(MergeStep(merged, Head(rows)), Tail(rows))

merged_intervals(rows) == MergeFrom(<<>>, rows)

\* Line 115.
Coverage(merged) == SeqSum([k \in 1..Len(merged) |-> merged[k][2] - merged[k][1]])

\* The values the function may return (one per order the sort may produce).
compute_executor_wall_clock_time(log) ==
    {Coverage(merged_intervals(rows)) : rows \in intervals(log)}

(***************************************************************************)
(* compute_stage_task_summary, lines 215-277: the task table and the       *)
(* bottleneck stages.  Of the per-stage statistics only the task count,    *)
(* the maximum duration, the executor count and the execution window are   *)
(* kept; the averages, percentiles and I/O volumes are read by nothing.    *)
(***************************************************************************)
\* Lines 215-234: the TaskEnd events that did not fail.
tasks_df(log) == SelectSeq(log.tasks, LAMBDA t : t.failed = FALSE)

\* The non-null values of a column; min, max and sum skip nulls and are null
\* when nothing is left.
NonNull(S) == S \ {None}

NullableMax(S) == IF NonNull(S) = {} THEN None ELSE SetMax(NonNull(S))

NullableMin(S) == IF NonNull(S) = {} THEN None ELSE SetMin(NonNull(S))

\* Lines 236-273 and the join of line 275: one row per (stage_id, stage_attempt_id).
stage_summary_df(log) ==
    LET T == tasks_df(log)
        keys == {<<T[k].stage_id, T[k].stage_attempt_id>> : k \in DOMAIN T}
        of(key) == {k \in DOMAIN T : <<T[k].stage_id, T[k].stage_attempt_id>> = key}
        row(key) ==
            LET min_launch_time == NullableMin({T[k].launch_time : k \in of(key)})
                max_finish_time == NullableMax({T[k].finish_time : k \in of(key)})
            IN [stage_id |-> key[1],
                stage_attempt_id |-> key[2],
                num_tasks |-> Cardinality(of(key)),
                max_duration_sec |-> NullableMax({T[k].run_time : k \in of(key)}),
                num_executors |-> Cardinality(NonNull({T[k].executor_id : k \in of(key)})),
                stage_execution_time_sec |->
                    IF min_launch_time = None \/ max_finish_time = None THEN None
                    ELSE max_finish_time - min_launch_time]
    IN {row(key) : key \in keys}

TopStages == 5

\* final_summary_df without the limit(5) of line 277.
final_summary_all(log) ==
    LET rows == SetToSeq(stage_summary_df(log))
    IN Orderings(rows, [k \in DOMAIN rows |-> 0 - rows[k].stage_execution_time_sec])

\* Lines 275-277: orderBy(stage_execution_time_sec desc), nulls last, limit(5).
\* The tables the query may return.
final_summary_df(log) ==
    LET rows == SetToSeq(stage_summary_df(log))
        sorted == Orderings(rows, [k \in DOMAIN rows |-> 0 - rows[k].stage_execution_time_sec])
    IN {SubSeq(o, 1, Min(TopStages, Len(o))) : o \in sorted}

\* Line 282.
max_executors(log) ==
    LET T == tasks_df(log) IN Cardinality({T[k].executor_id : k \in DOMAIN T})

\* per_stage_max_df with the smallest duration of each stage_id instead.
per_stage_min_df(log) ==
    LET T == tasks_df(log)
        stages == {T[k].stage_id : k \in DOMAIN T}
    IN [s \in stages |-> NullableMin({T[k].run_time : k \in {j \in DOMAIN T : T[j].stage_id = s}})]

\* Line 291: the largest duration of each stage_id.
per_stage_max_df(log) ==
    LET T == tasks_df(log)
        stages == {T[k].stage_id : k \in DOMAIN T}
    IN [s \in stages |-> NullableMax({T[k].run_time : k \in {j \in DOMAIN T : T[j].stage_id = s}})]

\* Lines 292-293: their sum; null when there is no row to add.
critical_path_sec(log) ==
    LET m == per_stage_max_df(log)
        rows == {s \in DOMAIN m : m[s] # None}
    IN IF rows = {} THEN None ELSE SetSum(m, rows)

\* Lines 295 and 120: the sum of executor_run_time_ms; null when there is no row.
total_task_time_ms(log) ==
    LET T == tasks_df(log)
        rows == {k \in DOMAIN T : T[k].run_time # None}
    IN IF rows = {} THEN None ELSE SetSum([k \in rows |-> T[k].run_time], rows)

(***************************************************************************)
(* estimate_runtime_scaling, lines 118-173.  With n executors the          *)
(* estimated executor time is (critical_path_ms * n + parallelizable_ms)   *)
(* / n milliseconds; fractions are kept as numerator and denominator.      *)
(***************************************************************************)
Multipliers == <<1, 2, 3, 4, 5>>

\* new_executors without the multiplier.
new_executors_fixed(current_executors, multiplier) == Max(1, current_executors)

\* Line 132.
new_executors(current_executors, multiplier) == Max(1, current_executors * multiplier)

\* Line 135, times new_executors.
estimated_executor_num(critical_path_ms, parallelizable_ms, n) ==
    critical_path_ms * n + parallelizable_ms

\* f"{int(x // 60)}m {int(x % 60)}s" of x = num / den milliseconds.
MinSec(num, den) ==
    LET whole_sec == FloorDiv(num, den * 1000)
    IN <<FloorDiv(whole_sec, 60), whole_sec % 60>>

\* Lines 138-141, as a fraction <<numerator, denominator>> of milliseconds.
\* With d = D / n the driver time and e = E / n the estimated executor time,
\* d + e is the divisor of line 138, the overlap weight is e / (d + e) and line
\* 141 is max(d, e) + (e / (d + e)) * min(d, e); the common factor g of D and
\* E is taken out of the fraction.  D + E # 0.
app_duration_frac(D, E, n) ==
    LET g == GCD(D, E)
        d == D \div g
        e == E \div g
    IN <<g * (Max(d, e) * (d + e) + e * Min(d, e)), n * (d + e)>>

\* Lines 132-152: one prediction.
Prediction(driver_ms, critical_path_ms, parallelizable_ms, current_executors, multiplier) ==
    LET n == new_executors(current_executors, multiplier)
        E == estimated_executor_num(critical_path_ms, parallelizable_ms, n)
        D == driver_ms * n
        total == app_duration_frac(D, E, n)
    IN IF D + E = 0 THEN Raise("ZeroDivisionError")
       ELSE Ok([Executor_Count |-> n,
                Executor_Multiplier |-> multiplier * 100,
                Estimated_Executor_WallClock |-> MinSec(E, n),
                Estimated_Total_Duration |-> MinSec(total[1], total[2])])

estimate_runtime_scaling(log, executor_wall_clock_sec, driver_wall_clock_sec, current_executors, critical_path) ==
    LET total == total_task_time_ms(log)
        parallelizable_ms == total - critical_path
        rows == [m \in DOMAIN Multipliers |->
                    Prediction(driver_wall_clock_sec, critical_path, parallelizable_ms,
                               current_executors, Multipliers[m])]
    \* line 121 subtracts before line 123 tests
    IN IF total = None THEN Raise("TypeError")
       ELSE IF total = 0 \/ executor_wall_clock_sec = 0 THEN Ok(<<>>)
       \* line 129: executor_wall_clock_sec + driver_wall_clock_sec is the divisor
       ELSE IF executor_wall_clock_sec + driver_wall_clock_sec = 0
            THEN Raise("ZeroDivisionError")
       ELSE IF \E m \in DOMAIN rows : rows[m].error # ""
            THEN Raise("ZeroDivisionError")
       ELSE Ok([m \in DOMAIN rows |-> rows[m].value])

(***************************************************************************)
(* generate_recommendations, lines 177-211.  A percentage 100 * x / d is   *)
(* compared with a threshold by cross-multiplication.                      *)
(***************************************************************************)
PctAbove(x, d, threshold) ==
    IF d > 0 THEN 100 * x > threshold * d ELSE 100 * x < threshold * d

PctBelow(x, d, threshold) ==
    IF d > 0 THEN 100 * x < threshold * d ELSE 100 * x > threshold * d

\* Metadata values: Python booleans, strings and None.
PyFalse == "False"
PyTrue == "True"
StrFalse == "false"
StrTrue == "true"
PyNone == "None"

NativeColumn == "spark.native.enabled"
HighConcurrencyColumn == "spark.synapse.session.tag.HIGH_CONCURRENCY_SESSION_TAG"
ArtifactColumn == "artifactType"

DriverHeavy == "This Spark job is driver-heavy (driver time > 70%)."
EnableNative == "Native Execution Engine (NEE) is disabled, but executors are doing significant work."
PythonNative == "This appears to be Python-native code running entirely on the driver."
EnableHighConcurrency == "High Concurrency is disabled for Fabric Notebook."
NoRecommendation == "No performance recommendations found."

\* Lines 183-184.
Rule1(driver, duration) ==
    IF PctAbove(driver, duration, 70) THEN <<DriverHeavy>> ELSE <<>>

\* Lines 186-189.
Rule2(executor, duration, metadata) ==
    IF /\ NativeColumn \in DOMAIN metadata
       /\ metadata[NativeColumn] \in {PyFalse, StrFalse}
       /\ PctAbove(executor, duration, 50)
    THEN <<EnableNative>> ELSE <<>>

\* Lines 191-192.
Rule3(driver, duration) ==
    IF PctAbove(driver, duration, 99) THEN <<PythonNative>> ELSE <<>>

\* Lines 194-198.
Rule4(driver, duration, metadata) ==
    IF HighConcurrencyColumn \in DOMAIN metadata /\ ArtifactColumn \in DOMAIN metadata
    THEN LET hc_enabled == metadata[HighConcurrencyColumn]
             artifact_type == IF PctBelow(driver, duration, 98)
                              THEN metadata[ArtifactColumn] ELSE PyNone
         IN IF hc_enabled \in {PyFalse, StrFalse, PyNone} /\ artifact_type = "SynapseNotebook"
            THEN <<EnableHighConcurrency>> ELSE <<>>
    ELSE <<>>

\* app_id is the notebook's global of that name (line 200).
generate_recommendations(app_duration_sec, driver_wall_clock_sec, executor_wall_clock_sec, metadata, app_id) ==
    IF app_duration_sec = 0 THEN Raise("ZeroDivisionError")
    ELSE LET recs == Rule1(driver_wall_clock_sec, app_duration_sec)
                     \o Rule2(executor_wall_clock_sec, app_duration_sec, metadata)
                     \o Rule3(driver_wall_clock_sec, app_duration_sec)
                     \o Rule4(driver_wall_clock_sec, app_duration_sec, metadata)
             rec_rows == [k \in DOMAIN recs |-> [app_id |-> app_id, recommendation |-> recs[k]]]
         IN IF rec_rows = <<>>
            THEN Ok(<<[app_id |-> app_id, recommendation |-> NoRecommendation]>>)
            ELSE Ok(rec_rows)

(***************************************************************************)
(* compute_stage_task_summary, lines 279-344.                              *)
(***************************************************************************)
\* round(num / den, 2) in hundredths, den > 0; an exact tie goes to the even
\* neighbour.
Round2(num, den) ==
    LET up == FloorDiv(200 * num + den, 2 * den)
    IN IF (200 * num + den) % (2 * den) = 0 /\ up % 2 = 1 THEN up - 1 ELSE up

\* Lines 316-327: the seven metric rows, values in hundredths.  Line 320
\* divides by app_duration_sec and line 323 rounds critical_path_sec.
metrics_rows(app_id, app_duration_sec, executor_wall_clock_sec, driver_wall_clock_sec, executors, critical_path) ==
    IF app_duration_sec = 0 THEN Raise("ZeroDivisionError")
    ELSE IF critical_path = None THEN Raise("TypeError")
    ELSE LET d == IF app_duration_sec > 0 THEN 1 ELSE -1
             metrics ==
                <<<<"Application Duration (sec)", Round2(app_duration_sec, 1000)>>,
                  <<"Executor Wall Clock Time (sec)", Round2(executor_wall_clock_sec, 1000)>>,
                  <<"Driver Wall Clock Time (sec)", Round2(driver_wall_clock_sec, 1000)>>,
                  <<"Executor Time % of App Time",
                    Round2(d * 100 * executor_wall_clock_sec, d * app_duration_sec)>>,
                  <<"Driver Time % of App Time",
                    Round2(d * 100 * driver_wall_clock_sec, d * app_duration_sec)>>,
                  <<"Max Executors", 100 * executors>>,
                  <<"Critical Path Time (sec)", Round2(critical_path, 1000)>> >>
         IN Ok([k \in DOMAIN metrics |->
                   [app_id |-> app_id, metric |-> metrics[k][1], value |-> metrics[k][2]]])

\* Lines 279-344 for one choice of the rows the queries return.
Analysis(log, metadata, app_id, final_summary, app_duration_sec, executor_wall_clock_sec) ==
    LET driver_wall_clock_sec == app_duration_sec - executor_wall_clock_sec
        executors == max_executors(log)
        critical_path == critical_path_sec(log)
        \* lines 306-311
        predictions ==
            IF critical_path # None /\ critical_path # 0
            THEN estimate_runtime_scaling(log, executor_wall_clock_sec,
                     driver_wall_clock_sec, executors, critical_path)
            ELSE Ok(<<>>)
        metrics == metrics_rows(app_id, app_duration_sec, executor_wall_clock_sec,
                       driver_wall_clock_sec, executors, critical_path)
        recommendations == generate_recommendations(app_duration_sec,
                               driver_wall_clock_sec, executor_wall_clock_sec,
                               metadata, app_id)
    IN IF predictions.error # "" THEN Raise(predictions.error)
       ELSE IF metrics.error # "" THEN Raise(metrics.error)
       ELSE IF recommendations.error # "" THEN Raise(recommendations.error)
       ELSE Ok(<<final_summary, metrics.value, predictions.value, recommendations.value>>)

\* compute_stage_task_summary with divisions that give NaN or infinity where
\* Python raises ZeroDivisionError (as they would on numpy or Spark doubles).
NotANumber(app_id, final_summary, outcome) ==
    IF outcome.error = "ZeroDivisionError"
    THEN Ok(<<final_summary,
              [k \in 1..7 |-> [app_id |-> app_id, metric |-> "", value |-> "nan"]],
              <<>>,
              <<[app_id |-> app_id, recommendation |-> NoRecommendation]>> >>)
    ELSE outcome

compute_stage_task_summary_nan(log, metadata, app_id) ==
    {NotANumber(app_id, final_summary,
         Analysis(log, metadata, app_id, final_summary, app_duration_sec,
                  executor_wall_clock_sec)) :
        final_summary \in final_summary_df(log),
        app_duration_sec \in compute_application_runtime(log),
        executor_wall_clock_sec \in compute_executor_wall_clock_time(log)}

\* What the function may return or raise.
compute_stage_task_summary(log, metadata, app_id) ==
    {Analysis(log, metadata, app_id, final_summary, app_duration_sec, executor_wall_clock_sec) :
        final_summary \in final_summary_df(log),
        app_duration_sec \in compute_application_runtime(log),
        executor_wall_clock_sec \in compute_executor_wall_clock_time(log)}

(***************************************************************************)
(* extract_app_metadata, lines 412-424: the columns of the metadata row.   *)
(* raw gives the values of the application's record.                       *)
(***************************************************************************)
MetadataColumns ==
    {"applicationId", "applicationName", "artifactId", "artifactType", "capacityId",
     "executorMax", "executorMin", "fabricEnvId", "fabricLivyId", "fabricTenantId",
     "fabricWorkspaceId", "isHighConcurrencyEnabled"}

extract_app_metadata(raw) ==
    [c \in MetadataColumns \cup {NativeColumn} |->
        IF c \in DOMAIN raw THEN raw[c] ELSE PyNone]

(***************************************************************************)
(* The interval merger on its own: compute_executor_wall_clock_time        *)
(* applied to a task list.                                                 *)
(***************************************************************************)
Idle == <<>>

IntervalTask(launch, finish) == TaskEnd(1, 0, 1, launch, finish, FALSE, 0)

MergeTasks ==
    {IntervalTask(p[1], p[2]) :
        p \in {q \in (0..MaxTime) \X (0..MaxTime) : q[1] <= q[2]}}
    \cup {IntervalTask(None, 1), IntervalTask(1, None)}

ScenarioIntervals ==
    <<IntervalTask(0, 10000), IntervalTask(5000, 15000), IntervalTask(20000, 25000)>>

ScenarioShuffled ==
    <<IntervalTask(20000, 25000), IntervalTask(5000, 15000), IntervalTask(0, 10000)>>

MergeInputs ==
    {EventLog({}, {}, tasks) :
        tasks \in SeqsUpTo(MergeTasks, MaxIntervals)
                  \cup {ScenarioIntervals, ScenarioShuffled}}

InitMerge ==
    /\ pc = "merge_input"
    /\ event_log_df \in MergeInputs
    /\ metadata_df = Idle
    /\ args = Idle
    /\ result = Idle
    /\ app_ids = <<>>
    /\ i = 0
    /\ summary_dfs = <<>>
    /\ metrics_df = <<>>
    /\ predictions_df = <<>>
    /\ recommendations_df = <<>>

ExecutorWallClock ==
    /\ pc = "merge_input"
    /\ \E wall \in compute_executor_wall_clock_time(event_log_df) : result' = Ok(wall)
    /\ pc' = "merged"
    /\ UNCHANGED <<event_log_df, metadata_df, args, app_ids, i,
                   summary_dfs, metrics_df, predictions_df, recommendations_df>>

NextMerge == ExecutorWallClock

SpecMerge == InitMerge /\ [][NextMerge]_vars

(***************************************************************************)
(* Properties of the interval merger (under SpecMerge).                    *)
(***************************************************************************)
\* The length of the union of the intervals, from the definition of a union:
\* the stretches between neighbouring end points that some interval covers.
UnionMeasure(rows) ==
    LET points == {rows[k][1] : k \in DOMAIN rows} \cup {rows[k][2] : k \in DOMAIN rows}
        next(p) == SetMin({q \in points : q > p})
        covered == {p \in points :
                       /\ \E q \in points : q > p
                       /\ \E k \in DOMAIN rows : rows[k][1] <= p /\ next(p) <= rows[k][2]}
    IN SetSum([p \in covered |-> next(p) - p], covered)

RawSum(rows) == SeqSum([k \in DOMAIN rows |-> rows[k][2] - rows[k][1]])

\* C1: compute_executor_wall_clock_time returns the length of the union of
\* the task intervals, whatever their order and overlaps; the empty list
\* gives 0 and (0,10),(5,15),(20,25) seconds gives 20 seconds.
C1_UnionLength ==
    pc = "merged" =>
        /\ result.error = ""
        /\ result.value = UnionMeasure(task_end_df(event_log_df))
        /\ task_end_df(event_log_df) = <<>> => result.value = 0
        /\ event_log_df.tasks \in {ScenarioIntervals, ScenarioShuffled} => result.value = 20000

\* The scenario's intervals, given out of order, have been merged to 20 seconds.
C1_Witness ==
    /\ pc = "merged"
    /\ event_log_df.tasks = ScenarioShuffled
    /\ result.value = 20000

\* Two intervals share at least a point (they overlap or touch).
OverlapOrTouch(a, b) == a[1] <= b[2] /\ b[1] <= a[2]

\* Two intervals share a stretch of positive length.
OverlapInLength(a, b) == Max(a[1], b[1]) < Min(a[2], b[2])

\* C8 as the claim states it, for intervals of positive length: coverage <=
\* the sum of the raw lengths, with equality exactly when no two intervals
\* overlap or touch.
C8_EqualIffNoTouch ==
    (pc = "merged" /\ \A t \in Range(task_end_df(event_log_df)) : t[1] < t[2]) =>
        LET rows == task_end_df(event_log_df)
        IN /\ result.value <= RawSum(rows)
           /\ result.value = RawSum(rows) <=>
                 \A a, b \in DOMAIN rows : a # b => ~OverlapOrTouch(rows[a], rows[b])

\* C8 as amended: coverage <= the sum of the raw lengths, with equality
\* exactly when no two intervals share a stretch of positive length.
C8_EqualIffNoSharedLength ==
    pc = "merged" =>
        LET rows == task_end_df(event_log_df)
        IN /\ result.value <= RawSum(rows)
           /\ result.value = RawSum(rows) <=>
                 \A a, b \in DOMAIN rows : a # b => ~OverlapInLength(rows[a], rows[b])

\* Two intervals that touch at an end point were merged and the coverage is
\* the sum of their lengths; a third one overlaps nothing.
C8_Witness ==
    /\ pc = "merged"
    /\ LET rows == task_end_df(event_log_df)
       IN /\ Len(rows) = 3
          /\ \E a, b \in DOMAIN rows :
                a # b /\ rows[a][1] < rows[a][2] /\ rows[a][2] = rows[b][1]
                      /\ rows[b][1] < rows[b][2]
          /\ result.value = RawSum(rows)
          /\ result.value > 0

(***************************************************************************)
(* generate_recommendations on its own, over percentages on both sides of  *)
(* every threshold and over metadata rows with and without each column.    *)
(***************************************************************************)
RecDurations == {0, 1000}

RecDriverTimes == {-100, 0, 700, 705, 975, 980, 985, 990, 995, 1000}

RecExecutorTimes == {0, 500, 505, 1000}

RecArgs ==
    [app_duration_sec : RecDurations, driver_wall_clock_sec : RecDriverTimes,
     executor_wall_clock_sec : RecExecutorTimes]

\* A metadata row with the given values; a column given as "" is not there.
MetadataRow(native, high_concurrency, artifact) ==
    LET columns == (IF native = "" THEN {} ELSE {NativeColumn})
                   \cup (IF high_concurrency = "" THEN {} ELSE {HighConcurrencyColumn})
                   \cup (IF artifact = "" THEN {} ELSE {ArtifactColumn})
    IN [c \in columns |->
           IF c = NativeColumn THEN native
           ELSE IF c = HighConcurrencyColumn THEN high_concurrency ELSE artifact]

RecMetadata ==
    {MetadataRow(n, h, a) :
        n \in {"", PyFalse, StrFalse, PyTrue, PyNone},
        h \in {"", PyFalse, StrFalse, PyTrue, StrTrue, PyNone},
        a \in {"", "SynapseNotebook", "SparkJobDefinition", PyNone}}

InitRecs ==
    /\ pc = "rec_input"
    /\ args \in RecArgs
    /\ metadata_df \in RecMetadata
    /\ event_log_df = Idle
    /\ result = Idle
    /\ app_ids = <<>>
    /\ i = 0
    /\ summary_dfs = <<>>
    /\ metrics_df = <<>>
    /\ predictions_df = <<>>
    /\ recommendations_df = <<>>

Recommend ==
    /\ pc = "rec_input"
    /\ result' = generate_recommendations(args.app_duration_sec, args.driver_wall_clock_sec,
                     args.executor_wall_clock_sec, metadata_df, 1)
    /\ pc' = "recommended"
    /\ UNCHANGED <<event_log_df, metadata_df, args, app_ids, i,
                   summary_dfs, metrics_df, predictions_df, recommendations_df>>

NextRecs == Recommend

SpecRecs == InitRecs /\ [][NextRecs]_vars

(***************************************************************************)
(* Properties of the recommendation rules (under SpecRecs).                *)
(***************************************************************************)
RecTexts == [k \in DOMAIN result.value |-> result.value[k].recommendation]

DriverPctTimes10 == (1000 * args.driver_wall_clock_sec) \div args.app_duration_sec

ExecutorPctTimes10 == (1000 * args.executor_wall_clock_sec) \div args.app_duration_sec

\* The four rules as the design states them.
Matches1 == DriverPctTimes10 > 700

Matches2 ==
    /\ NativeColumn \in DOMAIN metadata_df
    /\ metadata_df[NativeColumn] \in {PyFalse, StrFalse}
    /\ ExecutorPctTimes10 > 500

Matches3 == DriverPctTimes10 > 990

Matches4 ==
    /\ HighConcurrencyColumn \in DOMAIN metadata_df
    /\ metadata_df[HighConcurrencyColumn] \in {PyFalse, StrFalse, PyNone}
    /\ ArtifactColumn \in DOMAIN metadata_df
    /\ metadata_df[ArtifactColumn] = "SynapseNotebook"

MatchingRules ==
    (IF Matches1 THEN <<DriverHeavy>> ELSE <<>>)
    \o (IF Matches2 THEN <<EnableNative>> ELSE <<>>)
    \o (IF Matches3 THEN <<PythonNative>> ELSE <<>>)
    \o (IF Matches4 THEN <<EnableHighConcurrency>> ELSE <<>>)

\* C6: the output is the texts of all matching rules in the order 1, 2, 3, 4,
\* or the single "No performance recommendations found." record when no rule
\* matches; it is never empty.
C6_AllMatchingRulesInOrder ==
    (pc = "recommended" /\ result.error = "") =>
        /\ RecTexts = (IF MatchingRules = <<>> THEN <<NoRecommendation>> ELSE MatchingRules)
        /\ Len(result.value) >= 1

\* C7: rule 4 fires exactly when the high-concurrency flag is false or null
\* and the artifact is a notebook, whatever driverPct is and whichever of the
\* rules 1, 2 and 3 fire.
C7_Rule4Independent ==
    (pc = "recommended" /\ result.error = "") =>
        ((\E k \in DOMAIN RecTexts : RecTexts[k] = EnableHighConcurrency) <=> Matches4)

(***************************************************************************)
(* compute_stage_task_summary on its own, applied to one run's event log.  *)
(***************************************************************************)
\* Tasks launched at 0; executor 1 finishes after one second, executor 2
\* after two.
RunTasks ==
    {TaskEnd(stage, 0, executor, 0, 1000 * executor, failed, 1000 * run) :
        stage \in 1..2, executor \in 1..2, failed \in BOOLEAN, run \in 0..MaxRun}

\* One more (stage, attempt) group than the summary keeps.
NumGroups == TopStages + 1

\* One successful task in each of NumGroups (stage, attempt) groups, with the
\* given execution windows.
GroupTasks(window) ==
    [g \in 1..NumGroups |->
        TaskEnd((g + 1) \div 2, g % 2, 1, 0, 1000 * window[g], FALSE, 1000)]

\* Stage 1 with run times 10 s and 30 s, stage 2 with 20 s.
ScenarioStages ==
    <<TaskEnd(1, 0, 1, 0, 10000, FALSE, 10000), TaskEnd(1, 0, 2, 0, 30000, FALSE, 30000),
      TaskEnd(2, 0, 1, 30000, 50000, FALSE, 20000)>>

RunInputs ==
    {EventLog({0}, end, tasks) :
        end \in {{}, {1000}, {2000}}, tasks \in SeqsUpTo(RunTasks, MaxRunTasks)}
    \cup {EventLog({0}, {3000}, GroupTasks(window)) :
            window \in [1..NumGroups -> 1..MaxWindow]}
    \cup {EventLog({0}, {60000}, ScenarioStages)}

RunMetadata ==
    extract_app_metadata([artifactType |-> "SynapseNotebook",
                          isHighConcurrencyEnabled |-> PyFalse]
                         @@ (NativeColumn :> StrFalse))

InitRun ==
    /\ pc = "run_input"
    /\ event_log_df \in RunInputs
    /\ metadata_df = RunMetadata
    /\ args = Idle
    /\ result = Idle
    /\ app_ids = <<>>
    /\ i = 0
    /\ summary_dfs = <<>>
    /\ metrics_df = <<>>
    /\ predictions_df = <<>>
    /\ recommendations_df = <<>>

Analyse ==
    /\ pc = "run_input"
    /\ \E r \in compute_stage_task_summary(event_log_df, metadata_df, 1) : result' = r
    /\ pc' = "analysed"
    /\ UNCHANGED <<event_log_df, metadata_df, args, app_ids, i,
                   summary_dfs, metrics_df, predictions_df, recommendations_df>>

NextRun == Analyse

SpecRun == InitRun /\ [][NextRun]_vars

(***************************************************************************)
(* Properties of one run's analysis (under SpecRun).                       *)
(***************************************************************************)
Returned == pc = "analysed" /\ result.error = ""

MetricValue(k) == result.value[2][k].value

\* The log without its failed TaskEnd records.
WithoutFailed(log) == [log EXCEPT !.tasks = SelectSeq(@, LAMBDA t : ~t.failed)]

\* C2: the executor wall-clock time is computed from the non-failed tasks
\* only: it is the value the log without its failed TaskEnd records gives, and
\* so is the driver time derived from it.
C2_FailedTasksLeaveWallClock ==
    Returned =>
        \E wall \in compute_executor_wall_clock_time(WithoutFailed(event_log_df)),
           duration \in compute_application_runtime(event_log_df) :
            /\ MetricValue(2) = Round2(wall, 1000)
            /\ MetricValue(3) = Round2(duration - wall, 1000)

MetricNames ==
    <<"Application Duration (sec)", "Executor Wall Clock Time (sec)",
      "Driver Wall Clock Time (sec)", "Executor Time % of App Time",
      "Driver Time % of App Time", "Max Executors", "Critical Path Time (sec)">>

\* C9: a run analysed without error gives at most 5 stage rows, which are
\* the stages of largest execution window in descending order, exactly the 7
\* named metric rows, 0 or 5 prediction rows and at least 1 recommendation.
C9_ResultSizes ==
    Returned =>
        LET summary == result.value[1]
            stages == stage_summary_df(event_log_df)
        IN /\ Len(summary) <= 5
           /\ Len(summary) = Min(5, Cardinality(stages))
           /\ Range(summary) \subseteq stages
           /\ \A a, b \in DOMAIN summary :
                 a < b => /\ summary[a] # summary[b]
                          /\ summary[a].stage_execution_time_sec
                                >= summary[b].stage_execution_time_sec
           /\ \A row \in stages \ Range(summary) : \A k \in DOMAIN summary :
                 summary[k].stage_execution_time_sec >= row.stage_execution_time_sec
           /\ [k \in DOMAIN result.value[2] |-> result.value[2][k].metric] = MetricNames
           /\ Len(result.value[3]) \in {0, 5}
           /\ Len(result.value[4]) >= 1

\* A run with more than 5 stages of unequal windows returned 5 stage rows and
\* 5 predictions.
C9_Witness ==
    /\ Returned
    /\ Cardinality(stage_summary_df(event_log_df)) > 5
    /\ Len(result.value[1]) = 5
    /\ result.value[1][1].stage_execution_time_sec > result.value[1][5].stage_execution_time_sec
    /\ Len(result.value[2]) = 7
    /\ Len(result.value[3]) = 5
    /\ Len(result.value[4]) >= 1

\* The run times of the non-failed tasks of a log, all of them or those of one stage.
RunTimes(log) ==
    LET T == SelectSeq(log.tasks, LAMBDA t : ~t.failed)
    IN [k \in DOMAIN T |-> T[k].run_time]

StageRunTimes(log, stage) ==
    {t.run_time : t \in {u \in Range(log.tasks) : ~u.failed /\ u.stage_id = stage}}

SumOfStageMaxima(log) ==
    LET stages == {t.stage_id : t \in {u \in Range(log.tasks) : ~u.failed}}
    IN SetSum([s \in stages |-> SetMax(StageRunTimes(log, s))], stages)

\* C10: the critical path is the sum over the stage ids of the non-failed
\* tasks of the largest run time in the stage, it is at most the sum of all
\* their run times, and it is 50 s for stages with run times [10 s, 30 s] and
\* [20 s]; the metric row reports it.
C10_CriticalPath ==
    pc = "analysed" =>
        /\ RunTimes(event_log_df) # <<>> =>
              /\ critical_path_sec(event_log_df) = SumOfStageMaxima(event_log_df)
              /\ critical_path_sec(event_log_df) <= SeqSum(RunTimes(event_log_df))
        /\ result.error = "" => MetricValue(7) = Round2(SumOfStageMaxima(event_log_df), 1000)
        /\ event_log_df.tasks = ScenarioStages =>
              /\ critical_path_sec(event_log_df) = 50000
              /\ Returned /\ MetricValue(7) = 5000

\* The scenario's run was analysed and its critical path reported as 50.00 s.
C10_Witness ==
    /\ Returned
    /\ event_log_df.tasks = ScenarioStages
    /\ MetricValue(7) = 5000

(***************************************************************************)
(* The notebook's per-application loop (lines 434-472) and the combination *)
(* of its lists (lines 476-514).  The event log and the metadata record of *)
(* each application id come from the event store.                          *)
(***************************************************************************)
ShortTask == TaskEnd(1, 0, 1, 0, 2000, FALSE, 1000)
LaterTask == TaskEnd(2, 0, 2, 1000, 3000, FALSE, 2000)
FailedTask == TaskEnd(1, 0, 2, 0, 1000, TRUE, 500)
LongTask == TaskEnd(1, 0, 1, 0, 6000, FALSE, 6000)

BatchLogs ==
    {EventLog(start, end, tasks) :
        start \in {{}, {0}},
        end \in {{}, {0}, {4000}},
        tasks \in {<<>>, <<ShortTask>>, <<FailedTask>>, <<ShortTask, LaterTask>>,
                   <<ShortTask, FailedTask>>, <<LongTask>>}}

BatchRecords ==
    {[artifactType |-> "SynapseNotebook", isHighConcurrencyEnabled |-> PyFalse]
         @@ (NativeColumn :> native) : native \in {StrFalse, PyNone}}

\* Lines 458-459 and 471-472.
ErrorTable(app_id, message) == <<[applicationID |-> app_id, error |-> message]>>

MissingStartMessage == "Missing SparkListenerApplicationStart event"

\* unionByName over a list of tables (lines 479-481, 490-492).
RECURSIVE Union(_)
Union(tables) == IF tables = <<>> THEN <<>> ELSE Head(tables) \o Union(Tail(tables))

Init ==
    /\ pc = "loop"
    /\ app_ids \in {[k \in 1..n |-> k] : n \in 0..NumApps}
    /\ i = 0
    /\ event_log_df = Idle
    /\ metadata_df = Idle
    /\ args = Idle
    /\ result = Idle
    /\ summary_dfs = <<>>
    /\ metrics_df = <<>>
    /\ predictions_df = <<>>
    /\ recommendations_df = <<>>

\* Lines 443-460: the run has no application-start event.
MissingStart ==
    /\ pc = "loop"
    /\ i < Len(app_ids)
    /\ \E log \in BatchLogs, record \in BatchRecords :
          /\ log.start = {}
          /\ event_log_df' = log
          /\ metadata_df' = extract_app_metadata(record)
    /\ i' = i + 1
    /\ summary_dfs' = Append(summary_dfs, ErrorTable(app_ids[i + 1], MissingStartMessage))
    /\ result' = Idle
    /\ UNCHANGED <<pc, args, app_ids, metrics_df, predictions_df, recommendations_df>>

\* ProcessRun with the appends of lines 466-468 left out after the first: the
\* run adds its metrics and then an error row.
ProcessRunPartial ==
    /\ pc = "loop"
    /\ i < Len(app_ids)
    /\ \E log \in BatchLogs, record \in BatchRecords :
          /\ log.start # {}
          /\ \E r \in compute_stage_task_summary(log, extract_app_metadata(record),
                                                 app_ids[i + 1]) :
                /\ r.error = ""
                /\ result' = r
                /\ metrics_df' = Append(metrics_df, r.value[2])
                /\ summary_dfs' = Append(summary_dfs, ErrorTable(app_ids[i + 1], "Exception"))
          /\ event_log_df' = log
          /\ metadata_df' = extract_app_metadata(record)
    /\ i' = i + 1
    /\ UNCHANGED <<pc, args, app_ids, predictions_df, recommendations_df>>

\* Lines 443-455, 462-468: the analysis returns.
ProcessRun ==
    /\ pc = "loop"
    /\ i < Len(app_ids)
    /\ \E log \in BatchLogs, record \in BatchRecords :
          /\ log.start # {}
          /\ \E r \in compute_stage_task_summary(log, extract_app_metadata(record),
                                                 app_ids[i + 1]) :
                /\ r.error = ""
                /\ result' = r
                /\ metrics_df' = Append(metrics_df, r.value[2])
                /\ predictions_df' = Append(predictions_df, r.value[3])
                /\ recommendations_df' = Append(recommendations_df, r.value[4])
                /\ summary_dfs' = Append(summary_dfs, r.value[1])
          /\ event_log_df' = log
          /\ metadata_df' = extract_app_metadata(record)
    /\ i' = i + 1
    /\ UNCHANGED <<pc, args, app_ids>>

\* ProcessError without the try / except: the exception ends the notebook.
ProcessErrorUncaught ==
    /\ pc = "loop"
    /\ i < Len(app_ids)
    /\ \E log \in BatchLogs, record \in BatchRecords :
          /\ log.start # {}
          /\ \E r \in compute_stage_task_summary(log, extract_app_metadata(record),
                                                 app_ids[i + 1]) :
                /\ r.error # ""
                /\ result' = r
          /\ event_log_df' = log
          /\ metadata_df' = extract_app_metadata(record)
    /\ i' = i + 1
    /\ pc' = "failed"
    /\ UNCHANGED <<args, app_ids, summary_dfs, metrics_df, predictions_df,
                   recommendations_df>>

\* Lines 443-455, 462-463, 469-472: the analysis raises.
ProcessError ==
    /\ pc = "loop"
    /\ i < Len(app_ids)
    /\ \E log \in BatchLogs, record \in BatchRecords :
          /\ log.start # {}
          /\ \E r \in compute_stage_task_summary(log, extract_app_metadata(record),
                                                 app_ids[i + 1]) :
                /\ r.error # ""
                /\ result' = r
                /\ summary_dfs' = Append(summary_dfs, ErrorTable(app_ids[i + 1], r.error))
          /\ event_log_df' = log
          /\ metadata_df' = extract_app_metadata(record)
    /\ i' = i + 1
    /\ UNCHANGED <<pc, args, app_ids, metrics_df, predictions_df, recommendations_df>>

\* Lines 476-514 when every list has a first element.
Combine ==
    /\ pc = "loop"
    /\ i = Len(app_ids)
    /\ metrics_df # <<>> /\ predictions_df # <<>> /\ recommendations_df # <<>>
    /\ result' = Ok(<<Union(summary_dfs), Union(metrics_df), Union(predictions_df),
                      Union(recommendations_df)>>)
    /\ pc' = "combined"
    /\ UNCHANGED <<event_log_df, metadata_df, args, app_ids, i,
                   summary_dfs, metrics_df, predictions_df, recommendations_df>>

\* Lines 490, 501, 512: indexing the first element of an empty list.
CombineFails ==
    /\ pc = "loop"
    /\ i = Len(app_ids)
    /\ metrics_df = <<>> \/ predictions_df = <<>> \/ recommendations_df = <<>>
    /\ result' = Raise("IndexError")
    /\ pc' = "failed"
    /\ UNCHANGED <<event_log_df, metadata_df, args, app_ids, i,
                   summary_dfs, metrics_df, predictions_df, recommendations_df>>

Next == MissingStart \/ ProcessRun \/ ProcessError \/ Combine \/ CombineFails

Spec == Init /\ [][Next]_vars

(***************************************************************************)
(* Properties of the loop (under Spec).  After an iteration event_log_df   *)
(* is the log of the run just taken and result what its analysis gave.     *)
(***************************************************************************)
Last(list) == list[Len(list)]

IsErrorTable(table) == Len(table) = 1 /\ "error" \in DOMAIN table[1]

\* The run just taken had its start event and its analysis was called.
Analysed == i >= 1 /\ event_log_df.start # {}

\* C3: a run in which no stage has a successful task is not failed: its
\* analysis returns with an empty prediction set and the run adds its metrics
\* and recommendations and no error row.
C3_NoSuccessfulTaskNotFatal ==
    (/\ Analysed
     /\ tasks_df(event_log_df) = <<>>
     /\ 0 \notin compute_application_runtime(event_log_df)) =>
        /\ result.error = ""
        /\ result.value[3] = <<>>
        /\ ~IsErrorTable(Last(summary_dfs))
        /\ metrics_df # <<>> /\ Last(metrics_df) = result.value[2]
        /\ recommendations_df # <<>> /\ Last(recommendations_df) = result.value[4]

\* The run just taken was reported as an error row.
RunFailed == event_log_df.start = {} \/ result.error # ""

\* C4: the loop takes every application id; a run without a start event, or
\* one whose analysis raises, adds exactly one error row to the summary list
\* and nothing to the other three lists, and the loop goes on.
C4_ErrorsStayInTheirRun ==
    /\ [][i' # i =>
             /\ i' = i + 1
             /\ pc' = "loop"
             /\ Len(summary_dfs') = Len(summary_dfs) + 1
             /\ RunFailed' =>
                   /\ summary_dfs' = Append(summary_dfs,
                         ErrorTable(app_ids[i'],
                            IF event_log_df'.start = {} THEN MissingStartMessage
                            ELSE result'.error))
                   /\ UNCHANGED <<metrics_df, predictions_df, recommendations_df>>]_vars
    /\ [](pc # "loop" => i = Len(app_ids) /\ Len(summary_dfs) = Len(app_ids))

\* A batch of two or more ids: the first run had no start event, a later one
\* raised, the loop reached the end, and the three other lists are empty.
C4_Witness ==
    /\ pc # "loop"
    /\ Len(app_ids) >= 2
    /\ i = Len(app_ids)
    /\ summary_dfs[1] = ErrorTable(1, MissingStartMessage)
    /\ event_log_df.start # {} /\ result.error = "IndexError"
    /\ IsErrorTable(Last(summary_dfs))
    /\ Last(summary_dfs)[1].error \in {"ZeroDivisionError", "TypeError"}
    /\ metrics_df = <<>> /\ predictions_df = <<>> /\ recommendations_df = <<>>

\* C5: a run whose application runtime is 0.0 gets an error row (a
\* ZeroDivisionError when its analysis is called) and no metrics row is
\* appended for it.  Metric values are exact numbers here, so a NaN or an
\* infinity could only be a row appended for a run of runtime 0.0.
C5_ZeroRuntimeFailsTheRun ==
    [][(i' # i /\ compute_application_runtime(event_log_df') = {0}) =>
          /\ IsErrorTable(Last(summary_dfs'))
          /\ Last(summary_dfs')[1].applicationID = app_ids[i']
          /\ event_log_df'.start # {} => result'.error = "ZeroDivisionError"
          /\ metrics_df' = metrics_df]_vars

\* A run with a start event and a runtime of 0.0 (its end event is missing)
\* and a successful task was reported as an error row.
C5_Witness ==
    /\ pc = "loop"
    /\ Analysed
    /\ event_log_df.end = {}
    /\ tasks_df(event_log_df) # <<>>
    /\ result.error = "ZeroDivisionError"
    /\ Last(summary_dfs) = ErrorTable(app_ids[i], "ZeroDivisionError")

(***************************************************************************)
(* estimate_runtime_scaling on its own.  event_log_df holds the task table *)
(* (task_df) and args the scalar arguments.  The critical path is the one  *)
(* line 293 computes from the same tasks, and the call is made only when   *)
(* it is neither null nor zero (line 306); the executor and driver times   *)
(* and the executor count are any values, a negative driver time and an    *)
(* executor count of 0 included.                                           *)
(***************************************************************************)
ScaleTasks ==
    {TaskEnd(stage, 0, 1, 0, 1000, FALSE, 1000 * run) : stage \in 1..2, run \in 0..MaxRun}

ScaleLogs ==
    {log \in {EventLog({}, {}, tasks) : tasks \in SeqsUpTo(ScaleTasks, MaxRunTasks)} :
        critical_path_sec(log) # None /\ critical_path_sec(log) # 0}

ScaleArgs(log) ==
    [executor_wall_clock_sec : {1000 * k : k \in 0..MaxWindow},
     driver_wall_clock_sec : {1000 * k : k \in (0 - MaxWindow)..MaxWindow},
     current_executors : 0..MaxExecutors,
     critical_path_sec : {critical_path_sec(log)}]

InitScale ==
    /\ pc = "scale_input"
    /\ event_log_df \in ScaleLogs
    /\ args \in ScaleArgs(event_log_df)
    /\ metadata_df = Idle
    /\ result = Idle
    /\ app_ids = <<>>
    /\ i = 0
    /\ summary_dfs = <<>>
    /\ metrics_df = <<>>
    /\ predictions_df = <<>>
    /\ recommendations_df = <<>>

Scale ==
    /\ pc = "scale_input"
    /\ result' = estimate_runtime_scaling(event_log_df, args.executor_wall_clock_sec,
                      args.driver_wall_clock_sec, args.current_executors,
                      args.critical_path_sec)
    /\ pc' = "scaled"
    /\ UNCHANGED <<event_log_df, metadata_df, args, app_ids, i,
                   summary_dfs, metrics_df, predictions_df, recommendations_df>>

NextScale == Scale

SpecScale == InitScale /\ [][NextScale]_vars

(***************************************************************************)
(* Properties of the scaling predictor (under SpecScale).                  *)
(***************************************************************************)
\* The call returned its five predictions.
Predicted == pc = "scaled" /\ result.error = "" /\ result.value # <<>>

ParallelizableMs == total_task_time_ms(event_log_df) - args.critical_path_sec

\* Line 135 for the executor count of row m, times that count.
EstExecutorNum(m) ==
    estimated_executor_num(args.critical_path_sec, ParallelizableMs,
                           result.value[m].Executor_Count)

\* A formatted duration, in whole seconds.
WholeSeconds(minsec) == 60 * minsec[1] + minsec[2]

\* C11: whenever predictions are produced, the executor count of the row of
\* multiplier m is max(1, currentExecutors * m) for m = 1..5 (1 in every row
\* when currentExecutors is 0), and the estimated executor time does not
\* increase from one multiplier to the next, as an exact value and as the
\* formatted one.
C11_ExecutorsAndMonotone ==
    Predicted =>
        /\ Len(result.value) = 5
        /\ \A m \in 1..5 :
              /\ result.value[m].Executor_Multiplier = 100 * m
              /\ result.value[m].Executor_Count
                    = (IF args.current_executors * m >= 1
                       THEN args.current_executors * m ELSE 1)
        /\ \A m \in 1..4 :
              /\ EstExecutorNum(m + 1) * result.value[m].Executor_Count
                    <= EstExecutorNum(m) * result.value[m + 1].Executor_Count
              /\ WholeSeconds(result.value[m + 1].Estimated_Executor_WallClock)
                    <= WholeSeconds(result.value[m].Estimated_Executor_WallClock)

\* Predictions for two executors and tasks with time to divide among them:
\* the counts are 2, 4, 6, 8, 10 and the estimate at 5x is below that at 1x.
C11_Witness ==
    /\ Predicted
    /\ args.current_executors = 2
    /\ ParallelizableMs > 0
    /\ [m \in 1..5 |-> result.value[m].Executor_Count] = <<2, 4, 6, 8, 10>>
    /\ EstExecutorNum(5) * result.value[1].Executor_Count
          < EstExecutorNum(1) * result.value[5].Executor_Count

\* Predictions for an executor count of 0: every row has 1 executor and the
\* same estimate.
C11_WitnessZero ==
    /\ Predicted
    /\ args.current_executors = 0
    /\ \A m \in 1..5 : result.value[m].Executor_Count = 1

\* Fractions <<numerator, denominator>> with a non-zero denominator.
Sign(x) == IF x < 0 THEN -1 ELSE 1

FracLeq(a, b) ==
    LET sgn == Sign(a[2]) * Sign(b[2])
    IN a[1] * b[2] * sgn <= b[1] * a[2] * sgn

\* Row m's driver time and estimated executor time, times its executor count.
DriverNum(m) == args.driver_wall_clock_sec * result.value[m].Executor_Count

\* Line 141 for row m, and the two compositions it is said to lie between.
EstTotal(m) == app_duration_frac(DriverNum(m), EstExecutorNum(m), result.value[m].Executor_Count)

PureOverlap(m) == <<Max(DriverNum(m), EstExecutorNum(m)), result.value[m].Executor_Count>>

PureSerial(m) == <<DriverNum(m) + EstExecutorNum(m), result.value[m].Executor_Count>>

Between(x, a, b) == (FracLeq(a, x) /\ FracLeq(x, b)) \/ (FracLeq(b, x) /\ FracLeq(x, a))

BlendAt(m) ==
    /\ DriverNum(m) + EstExecutorNum(m) # 0
    /\ Between(EstTotal(m), PureOverlap(m), PureSerial(m))
    /\ result.value[m].Estimated_Total_Duration = MinSec(EstTotal(m)[1], EstTotal(m)[2])

\* C12: whenever predictions are produced, a negative driver time included,
\* the divisor of the overlap weight (driver time plus estimated executor
\* time) is not zero and each row's estimated total duration lies between
\* max(driverSec, estExecutorSec) and driverSec + estExecutorSec.
C12_TotalIsABlend ==
    Predicted => \A m \in 1..5 : BlendAt(m)

\* C12 for the driver times that are not negative: there the estimated total
\* is between the maximum and the sum, in that order.
C12_BlendForNonNegativeDriver ==
    (Predicted /\ args.driver_wall_clock_sec >= 0) =>
        \A m \in 1..5 :
            /\ BlendAt(m)
            /\ FracLeq(PureOverlap(m), EstTotal(m))
            /\ FracLeq(EstTotal(m), PureSerial(m))

\* C12, division: a call that gets past the early return of line 123 does
\* not raise ZeroDivisionError.
C12_NoDivisionByZero ==
    pc = "scaled" => result.error # "ZeroDivisionError"

(***************************************************************************)
(* The lists of the loop (under Spec).                                     *)
(***************************************************************************)
\* The runs taken so far that were not reported as an error row.
Succeeded == Cardinality({k \in DOMAIN summary_dfs : ~IsErrorTable(summary_dfs[k])})

\* C13: at every point of the loop the summary list has one entry per
\* application id taken so far and the metrics, predictions and
\* recommendations lists have one entry per run analysed without error; an
\* iteration adds one entry to each of the three or to none of them; and
\* when no run of the batch was analysed without error the three lists are
\* empty at the combination, whose indexing of the first element fails.
C13_ListsInStep ==
    /\ [](/\ Len(summary_dfs) = i
          /\ Len(metrics_df) = Succeeded
          /\ Len(predictions_df) = Succeeded
          /\ Len(recommendations_df) = Succeeded)
    /\ [][i' # i =>
             IF RunFailed'
             THEN UNCHANGED <<metrics_df, predictions_df, recommendations_df>>
             ELSE /\ metrics_df' = Append(metrics_df, result'.value[2])
                  /\ predictions_df' = Append(predictions_df, result'.value[3])
                  /\ recommendations_df' = Append(recommendations_df, result'.value[4])]_vars
    /\ []((pc # "loop" /\ Succeeded = 0) =>
            /\ metrics_df = <<>> /\ predictions_df = <<>> /\ recommendations_df = <<>>
            /\ pc = "failed"
            /\ result = Raise("IndexError"))

\* A batch of two ids, one run reported as an error row and one analysed:
\* two summary entries and one entry in each of the other lists.
C13_Witness ==
    /\ pc = "combined"
    /\ Len(app_ids) = 2 /\ i = 2
    /\ Succeeded = 1
    /\ Len(summary_dfs) = 2
    /\ Len(metrics_df) = 1 /\ Len(predictions_df) = 1 /\ Len(recommendations_df) = 1

\* A batch of two ids whose runs both raised: the combination found the three
\* lists empty and failed on the first of them.
C13_WitnessAllFail ==
    /\ pc = "failed"
    /\ Len(app_ids) = 2 /\ i = 2
    /\ \A k \in 1..2 : IsErrorTable(summary_dfs[k]) /\ summary_dfs[k][1].error # MissingStartMessage
    /\ metrics_df = <<>> /\ predictions_df = <<>> /\ recommendations_df = <<>>
    /\ result = Raise("IndexError")

====
